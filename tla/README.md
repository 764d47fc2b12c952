# A TLA+ model of TaskAttest

TaskAttest runs the checks a Git repository declares and stores a receipt: what
was run, on which source, with which outcome, and the digests of the complete
logs. Its value is that a receipt can be believed. These specifications model
the parts of the program on which that depends, check them with TLC on small
instances and prove the central results with TLAPS for all instances. Paths
below are relative to the repository (`src/src/...` is the Rust crate).

## 1. The system

| Component | Source | State | Operations |
|---|---|---|---|
| Discovery | `discover.rs` | none kept; builds a report from manifests, workflows and `.taskattest.toml` | `discover_checks`: the manifest readers `discover_javascript`, `discover_python`, `discover_rust` and `discover_go`, workflow observations and replacements, gaps, selection |
| Source identity | `source.rs`, `git.rs` | none kept; reads the workspace and asks git | `identify_source` before discovery and after the checks: HEAD, ref, status, changed paths, then the digest over the listed files |
| Run command | `execute.rs` `run_checks`, `main.rs` | executions so far, fail-fast flag, cancellation token, progress sequence | preflight, the loop over the checks, the receipt, the store, the portable copy, the exit code |
| Check execution | `execute.rs` `execute_check` | child, process group, two capture threads, shared byte counter and flag, deadline, forced outcome | spawn, poll, terminate, join, persist |
| Evidence store | `store.rs` | `receipts/`, `blobs/sha256/`, `tmp/` | `create_capture_file`, `store_blob`, `write_receipt`, reads |
| Atomic JSON publication | `source.rs` | a temporary name, a final name | `preflight_json_output`, `write_json_atomic` |
| Receipt verification | `verify.rs` | none | `verify_receipt`, `verify_semantics`, `verify_blob` |
| Receipt parsing | `store.rs` | none | `parse_receipt_document` |
| Output, errors, schemas, types | `main.rs`, `error.rs`, `schema.rs`, `model.rs` | none | printing, exit codes |

How they interact: `Commands::Run` calls preflight, source identity, discovery
and the store in sequence, then `run_checks`, which calls `execute_check` for
each check. `execute_check` shares an atomic counter, an atomic flag and the
cancellation token with two threads and the Ctrl-C handler, and pipes and a
process group with processes it does not control. The store's directory is
shared by any number of runs, live or killed. The verifier sees only what a run
has left on disk.

What is hard about it, and what must hold:

- **Check execution** is concurrent. The command may exit, fork, write, ignore
  signals or outlive its group while the supervisor looks at token, flag and
  deadline one after the other. The recorded outcome must have a cause that
  held, the recorded logs must be all that was written, nothing of the group
  that can be killed may survive, and the deadline and Ctrl-C must end the call.
- **Run command** is a long sequence with a failure after each step. Fail-fast
  must hold for the whole plan, a Ctrl-C must never be lost, the exit code must
  say what evidence exists, the portable copy must not precede the stored
  receipt, and what is stored must be what the verifier accepts.
- **Evidence store** has concurrent writers without locks, kills between any
  two system calls, process ids that come back, and power losses. A final name
  must be bound once, to something whole, and a stored receipt must verify.
- **Source identity** is a sequence of up to seven git commands and two reads
  for each file, while others may edit what they read, and it is collected
  twice; discovery reads the workspace in between. Two identities that agree
  must be evidence of what lay between them, and a run that nobody disturbs
  must not find a difference.
- **Discovery** is sequential, but its ids are keys elsewhere: two observations
  with one id, or two checks with one id, change what is selected or reported.

The complete list, with lines and the properties that cover each, is `hazards`
in `PROJECT.json`.

## 2. The modules

| Module | Models | Extends / instantiates |
|---|---|---|
| `CheckContract` | what `execute_check` promises its caller (abstract) | |
| `CheckExecution` | `execute_check` step by step | implements `CheckContract` |
| `CheckExecution_proofs` | theorems about it | `CheckExecution`, TLAPS |
| `Receipts` | the receipt, `receipt_outcome`, `verify_semantics` | |
| `RunChecks` | one `taskattest run` | `Receipts`; a check is one step, as `CheckContract` describes it |
| `RunChecks_proofs` | theorems about it | `RunChecks`, SequenceTheorems, TLAPS |
| `WriteOnce` | what the evidence store promises (abstract) | |
| `EvidenceStore` | the store's directory and the runs that publish into it | implements `WriteOnce` |
| `EvidenceStore_proofs` | theorems about it | `EvidenceStore`, TLAPS |
| `SourceIdentity` | `identify_source`, twice, while the workspace is edited | |
| `SourceIdentity_proofs` | theorems about it | `SourceIdentity`, TLAPS |
| `Verifiers` | the manifest readers and the commands discovery knows (no state) | |
| `Verifiers_proofs` | lemmas about its operators | `Verifiers`, TLAPS |
| `Discovery` | `discover_checks`: the plan `RunChecks` starts from | `Verifiers` |
| `DiscoveryChecks_proofs` | theorems about the checks | `Discovery`, `Verifiers_proofs` |
| `Discovery_proofs` | theorems about workflow steps, replacements and the plan | `DiscoveryChecks_proofs` |
| `MC...` | model values and definitions for the configurations | |

### CheckExecution

`step` is the supervisor's position in `execute_check`. Between `create` and
`done` its values are the code's own order: `try_wait`, `see_cancel`,
`see_limit` and `see_deadline` are the polling loop, `term_group` to `wait` are
`terminate_process_tree`, `probe_group` and `kill_orphans` are
`terminate_orphaned_process_group`, then the two joins and the two
publications. `failed` is a returned `Err`. `forced` is `forced_outcome`,
`total` and `limitHit` are the atomics shared with the threads, `cancelled` is
the token.

The capture threads have separate steps for the read, the `fetch_add` and the
store of the flag, because the supervisor and the other thread run in between.
The command is a leader and up to `Kids` descendants, each of which may fork,
inherit pipe ends, write, exit and, if `MayEscape`, leave the process group.
SIGTERM constrains nobody. With `MayChangeUser` a process of the group may run as
another user with all its ids (`ChangeUser`, as sudo does); it and what it forks
are `shielded`. `kill()` on a group succeeds if it reaches one member and may be
refused the others (`EPERM`), so SIGKILL spares any subset of the shielded
processes (`KillGroup`). The two sweeps ignore an error of `kill()`
(`execute.rs:665`, `690`, `692`) and go on; where it is not ignored it is
`SuperviseFails`. The probe counts a refusal as "somebody is there"
(`execute.rs:702`). Removals whose errors the code drops may each fail: that of
the first capture file when the second cannot be made, and of both when the
command cannot be spawned (`execute.rs:254`). Bytes are counted in units, a unit
being what one read returns.

`CheckContract` is what `RunChecks` needs to know: the call returns an outcome
for which there is cause at that moment, only when every process of the group
that can be killed is dead, and the leader reaped; after that its logs do not
grow. What could not be killed may live on and fork (`Linger`), and when it is
dead it stays so. The refinement maps `alive` to the group and the unreaped
leader, `immune` to the shielded processes and `logged` to the units written.
The contract is checked as `ContractSpec` and proved.

### Receipts and RunChecks

`receipt_outcome` and `expected_outcome` are the producer's and the verifier's
computation of the outcome. They are separate in the code and have different
inputs, so they are two operators; `StoredReceiptVerifies` relates them.

`RunChecks` has one action per stage of `Commands::Run` and `run_checks`. Every
stage that can return an error has a failing alternative that ends the process
with the exit codes `error.rs` gives such errors; 101 is the panic of `println!`
or `eprintln!` on a closed stream. Around the process, the workspace is edited
by checks (and by anybody, with `OutsideEdits`), Ctrl-C sets the token once the
handler is installed and kills the process before that, the output path may be
created by somebody else, and the wall clock advances and may be stepped back.
`strayed` and `stepped` are history variables.

`ExecuteCheck` may return any outcome, `Cancelled` only with the token set: the
part of `CheckContract` that matters here. That the other outcomes come at any
time is more than the code can do, never less. Contents of the workspace are
values, and an identity of the source is the value: that two contents have two
identities is what `SourceIdentity` examines.

`verify_semantics` also tests that the handle of a log reference is that of its
digest (`verify.rs:112-122`). `persist_capture` builds the one from the other, so
a producer's receipt does not reach it and it is left out.

### EvidenceStore

The disk is a function from names to files (`entry`), the files' contents
(`data`) and which of them are synced. `hard_link` binds a second name to the
same file; this is why a file can be reached by a temporary and a final name at
once, which the crash properties are about. A run publishes its two logs
(`look`, `link`, `recheck`, `compare`, `remove`, one step per system call of
`store_blob`), then its receipt and, for `Publishers`, the portable copy
(`exists`, `preflight`, `create`, `write`, `sync`, `publish`, `cleanup` or
`discard`, one per system call of `write_receipt` and `write_json_atomic`).
Temporary names carry the process id and a per-process counter, and runs may
share a process id: one after the other, or at the same time in different
process-id namespaces. When the command of the check cannot be spawned
(`SpawnFails`), the two empty capture files are removed without a look at the
result, and the run stores a receipt that refers to no log.

Nothing syncs a directory. After a power loss any name may be missing, and a
temporary name that was removed may be there again (`PowerLoss`, `Unlinked`);
data that was not synced may be incomplete.

Digests are taken to be injective, so a log's content is its digest and a
receipt its own id. `Stamps` stands for the times and durations that make two
receipts with the same logs different; two runs may also get the same stamp.
One check per run stands for all: every check's logs go through the same calls.

### SourceIdentity

`stage` is the next step of the run, `round` the identification it is in. From
`head` to `list` each stage is one git command, and `partial` is the identity
collected so far; `hash` inspects the next listed path (`symlink_metadata`) and
`read` opens it, two steps because the path may change in between;
`submodule_status` is the second of the two commands a submodule takes.
`discover` and `checks` are what the run does between the identifications,
`StoreWrites` the evidence it stores inside the workspace if the state
directory is there. `Edit` is anybody else: files, links and submodules that
appear, change and go, `git add`, `git rm --cached`, commits, resets, switches.

A facet is one thing an identity tells: the kind, content or mode of a path,
HEAD, the ref. `past`, `restored`, `followed`, `quiet` and `drifted` are history
variables about facets; no action of the program reads them.

What is hashed is `stream`, the sequence of pieces `hash_workspace` feeds to the
hasher, and only SHA-256 itself is taken to be injective. `Piece` is what one
entry adds: its path, with its length before it, then a link's target or the two
answers of a submodule, which have their lengths as well, or, for a file, a fixed
prefix, the content without its length, and one byte for the executable bit
(`source.rs:80-83`). `Bytes` says which pieces a content reads like: a content is a
piece of text or any sequence of pieces, so that one may hold what looks like the
end of its own entry and the beginning of another. Two contents differ in their
pieces. `entries` keeps, as history, what the stream was made of; the program
compares what `Agree` compares, the fields of the struct `SourceIdentity`. Cutting
contents at whole pieces loses nothing: where two readings of one stream part,
the shorter content ends within the longer, and the next path with its eight
bytes of length follows. It cannot go beyond the end of the longer content, since
what comes there are a byte of mode and another length, and no path has NUL in it.

The content of the index is seen only as far as `git status`
tells it, a submodule only by its HEAD and whether it is dirty, and the ignore
rules do not change. Unsupported file types, unreadable paths and link targets
that are not UTF-8 are the failure `io`, which every step may meet. That git
answers nothing when asked for HEAD or the ref is taken to mean that there is
none. A state directory in the workspace that git lists makes the source differ
after the run's own writes; `MismatchHasCause` names that case.

### Discovery and Verifiers

`discover_checks` runs alone, so `stage` is only its place in the sequence:
`config` and `manifests` read inputs, `workflows` takes one workflow step at a
time, `configure` is the filter, the appended explicit checks and the sort,
`validate` is `validate_checks`, `replace` is `apply_workflow_replacements` and
`select` is the selection with its gaps. A failing stage leaves `error`, the
kind of error the code returns.

`Verifiers` has the readers of package.json, of the Python files, of Cargo.toml
and of go.mod as operators from what a repository has to the checks it yields
(`ManifestChecks`), and the commands that are known verifiers (`CommandKind`).
A command is a sequence of words. Constants are only what is inside a word, a
text or a pattern: the portable part of a script's name (`JsId`, `LongJsId`),
how a text splits (`Split`) and whether it has characters of the shell
(`NeedsShell`), whether it looks like verification (`Looks`), the id made of its
digest (`CiId`) and which paths the patterns of a check cover.
What is modelled beyond that is how the parts find each other afterwards, by id.
`Names` are observation ids (`workflow#job#name`), which nothing makes unique;
a gap is a text that ends with such an id, and `EndsWith` says which ids end
with which others, as `gap.ends_with(observation_id)` does. `InvalidIds` are
those `valid_check_id` rejects, such as one that two long script names with a
common start get (`discover.rs:596`).

The composition with `RunChecks` is by assumption and guarantee: `RunChecks`
lets `Discover` return any plan with `PlansAssumption` and, if it is empty,
records a gap; `PlanAssumed` is that property of the report this module makes,
and it is proved.

What the code puts in order (the scripts in their `BTreeMap`, the checks by
`sort_by`) is `InOrder` of a set: the enumeration in which each member follows
those that come before it. Names and ids have ranks for their lexical order
(`ScriptRank`, `IdRank`). `LongNamed` is what the loop over the scripts comes to:
the set of those whose id was taken when it was their turn, by the short or the
long id of a script before them.

## 3. The runs

| Run | Instance | Shows |
|---|---|---|
| `check_execution` | 1 descendant that may leave the group, either process may change its user, limit 1, 2 units, fair | `LogsComplete`, `LimitDecides`, `NoSurvivor`, `FilesSettled`, `ContractSpec`, `DeadlineMet`, `CancellationMet` |
| `check_execution_escape` | 1 descendant that may leave the group, fair | `DeadlineEnforced` is violated |
| `run_checks` | plans of 0, 1 and 3 checks, 2 workspace contents, outside edits; a clock with two values that may step back | the seven properties of a run |
| `run_checks_mutation` | no outside edits | `MutationFails` is violated |
| `run_checks_late_cancel` | no outside edits | `CancelledReceiptVerifies` is violated |
| `evidence_store` | 2 runs with one process id and one output path, one log content, one stamp, a possibly damaged blob and a leftover, kills, and a power loss with one run started | the seven properties of the store |
| `evidence_store_durable` | 1 run, power loss | `StoredIsDurable` is violated |
| `discovery` | 7 projects, up to 3 workflow steps, 2 names one of which ends with the other, 5 texts, 4 directories, no configuration or one of 7, 6 requests | the nine properties of discovery |
| `discovery_unreported` | up to 2 workflow steps, no name that ends with another | `UnmodeledIsReported` is violated |
| `discovery_fixers` | one package with a script that fixes files, up to 2 workflow steps | `FixersNotSelected` is violated |
| `source_identity` | 2 paths, one of them ignored by `.gitignore`, 2 contents, the longer of which has the boundary of two entries in it, 2 commits, 5 repositories, 2 edits, state directory outside or at the ignored path | the five properties of identification |
| `source_identity_alias` | the repository with two such files, state directory outside | `UnchangedMeansSame` is violated |

The properties:

- `LogsComplete`: the recorded logs are everything that was written to the two
  pipes, and no live process can write more.
- `LimitDecides`: `Passed` and `Failed` are recorded only of checks within the
  log limit and `LogLimitExceeded` only of checks beyond it, whatever the
  supervisor saw of the flag.
- `NoSurvivor`: when an outcome is returned the leader is reaped, nothing of the
  group lives but processes that refused the signal, and these hold no log.
- `FilesSettled`: whatever fails, with an outcome or an error, a log of a command
  that ran is a capture file or a blob; capture files outlive the call only with
  an error or a command that could not be spawned.
- `DeadlineMet`, `CancellationMet`: the deadline and Ctrl-C end the call, if from
  some moment on (`AllReachable`) no process is left that escaped or may refuse
  its signals. Such a process may hold a pipe, and a leader that cannot be killed
  is waited for without a bound (`execute.rs:671`).
- `FailFast`, `ProgressIsHistory`, `CancellationSticks`: about the whole
  sequence of checks, events and the token.
- `StoredReceiptVerifies`: the verifier objects to a stored receipt in two
  cases only, a clock stepped back and a Ctrl-C that no check saw.
- `ExitCodeTells`, `PrimaryFirst`: exit code, stored
  receipt and portable copy agree, at any moment the process may be killed.
- `CommittedStays`, `NamesTellTruth`, `WriteOnceSpec`: final names are bound
  once and to whole, synced, fitting files.
- `ReceiptsHaveLogs`: every stored receipt passes `verify_blob` for its logs.
- `ResultTells`: what the run reported is so.
- `NoLogLeftBehind`: a run that stored its receipt left at most the empty capture
  files of a command that could not be spawned, to which no receipt refers.
- `StepsBecomeChecks`, `OneCheckPerCommand`: every workflow step that is one
  safe command ends as exactly one check of that command in that directory.
- `GapsMatchObservations`, `ReplacementsExact`: observations, gaps and the
  explicit checks that replace steps agree, up to names that end with another.
- `PlanAssumed`, `ChangesAccounted`: the plan is what `run_checks` relies on,
  and every changed path is covered by it or reported.
- `RejectsOnlyCollisions`: without a configuration only two things in a readable
  repository can stop discovery, the same text run in two directories and
  package scripts whose names begin alike for longer than an id may be.
- `IdsChangeHandsByName`: adding a package script never changes the id of
  another, unless it sorts before it and has the same portable name.
- `UnchangedIsSteady`: if both identities of a run agree, the workspace was what
  they say from the end of the first to the start of the second, and discovery
  read its manifest of that content, though nothing here is atomic. The three
  exceptions are stated: something was put back to a value it had had, a link
  took the place of a file between inspection and reading, or a file's content
  reads like the beginning of an entry (`Delimited`).
- `MismatchHasCause`: identities that differ have an edit, or the run's own
  store in the listed workspace, as their cause.
- `DirtyHasPaths`: the dirty flag and the changed paths come from different
  commands and agree in an undisturbed workspace.
- `DeletedHasNoIdentity`: an undisturbed workspace has no identity if, and as
  far as missing files go only if, a tracked file was deleted.

### Bounds

- One descendant beside the leader can die, escape, refuse a signal or hold a
  pipe while the leader does something else; each property speaks of processes
  one by one or of all of them. With a limit of 1 and two units written, both
  threads can be between `fetch_add` and the flag at once, and the total can be
  below, at and above the limit. The proofs drop these bounds, that of the
  descendants too; only the two liveness properties rest on them.
- Three checks are enough for a check that passed, one that did not and one
  that is skipped because an earlier one was; the empty plan is its own case in
  both outcome computations. Two contents suffice to differ and to be restored.
- With `MaxClock` 1, a step back from 1 to 0 can fall between any two readings.
  `ClockInShortRuns` keeps the clock still in runs of more than one check and in
  edited workspaces, where times play no other role; the proofs do without it.
- Two runs suffice for every race on one name, since each step of the protocol
  looks at one name at a time. `MaxAttempts` is 2 instead of 100: with a
  leftover, both attempts of a run can be taken. Each run has one stamp, so two
  runs with the same logs also compete for the name of their receipt, which two
  stamps would only keep apart.
- The power is lost while at most one run has started (`MaxStarted`), over
  leftovers that stand for earlier runs, and no run is started afterwards
  (`LossIsTheEnd`). `EvidenceStore_proofs` needs neither: there the power may be
  lost among any number of runs, and others may start.
- In `discovery`, three steps are enough for one that is replaced, one of the
  same or a longer name, and one that becomes or matches a check; two of the
  texts are the same command spelled twice. The configurations disable,
  override, duplicate and replace, the requests name known and unknown checks,
  covered and uncovered paths. The seven projects are none, Rust with and
  without other manifests, packages whose scripts collide, one with a script
  that fixes files, and two declarations of Python tools; `TwoStepsInOthers`
  gives all but two of them at most two steps, which is enough for a step that
  matches a check of a manifest and one beside it.
- In `source_identity`, two edits are the least that can put something back, or
  change a path after it was read and another before. The five repositories are
  clean, with a submodule, with a staged change and a deleted file, before the
  first commit, and with two changed files the second of which has the boundary
  between the two in its content. `SourceIdentity_proofs` drops the bounds.
- The deadlines and grace periods are flags that may be raised at any moment,
  so no bound on time is needed.

No configuration turns deadlock checking off. Each specification has a
stuttering step for its ended states (`Returned`, `Ended`, `Finished`), so a
deadlock anywhere else is reported.

### Fairness

Only `check_execution` and `check_execution_escape` use it. The supervisor, each
capture thread and the passing of the grace period are weakly fair: they are
threads the operating system schedules, and `std::time::Instant` advances.
Nothing is assumed of the command, which may run, ignore SIGTERM or hold its
pipes for ever; no fault has to occur, so nothing terminates only because an
error must; the deadline itself need not pass for `CancellationMet`. That a
process which cannot be killed goes away is not assumed either: `AllReachable` is
a premise of the two properties, stated in them.

## 4. What the violations mean

1. `DeadlineEnforced` with escaping descendants: after the loop
   `execute_check` joins the capture threads without a bound (`execute.rs:342`).
   A descendant in a session of its own that holds a log pipe blocks the run
   past the "hard wall-clock limit" (`main.rs:71`), and Ctrl-C does not help. A
   process of the group that changed its user and refuses SIGKILL does the same
   without leaving the group, and so does a command of that kind itself, for
   which line 671 waits. `DeadlineMet` and `CancellationMet` hold in
   `check_execution` because their premise leaves these cases out.
2. `MutationFails`: `docs/RECEIPTS.md:17` says the identity is recomputed after
   every check; the code recomputes it once, after the last
   (`execute.rs:144`). A mutation that a later check undoes goes unrecorded.
3. `CancelledReceiptVerifies`: a Ctrl-C after the last check, or with nothing
   selected, makes `receipt_outcome` say `Cancelled`, which `verify_semantics`
   derives from the checks alone and rejects: the stored receipt is invalid.
4. `StoredIsDurable`: `write_json_atomic` syncs the file, nothing syncs the
   directory. A power loss may take a receipt that was reported stored. What
   it cannot do is leave a name bound to less than the whole document; that is
   what `NamesTellTruth` and `WriteOnceSpec` show of `evidence_store`.
5. `UnmodeledIsReported`: nothing makes the ids of workflow steps unique. When
   two steps have one id, a replacement reclassifies the first and drops the
   gaps of both (`discover.rs:1262`), so the second is neither run nor
   reported, against `README.md:74` and `docs/CONFIGURATION.md:69`.
6. `FixersNotSelected`: scripts that fix files are "not selected automatically"
   (`README.md:73`). The manifest reader leaves them out, but a workflow step
   that names one is judged by the script's name alone (`discover.rs:465`), so it
   is selected and changes the source it is to give evidence of.
7. `UnchangedMeansSame`: a file's content has no length in the workspace digest
   (`source.rs:80-83`). If the content of `b` has in it the end of an entry and
   the path of `b` as they are hashed, two edits can move the boundary between
   `a` and `b` from one occurrence to the other, and the stream is the same: the
   identities agree, although `docs/RECEIPTS.md:12-18` says that they cover path
   boundaries and contents and that a mutation makes the receipt fail. No
   collision of SHA-256 is needed. It takes contents made for it, or a file that
   records such a stream; `UnchangedIsSteady` and its theorem say what holds for
   all others.

Two more boundaries of the program show in properties that hold:

- The id of a check made from a workflow step contains the digest of its text
  but not its directory (`discover.rs:281`), so a repository that runs the same
  command in two directories is rejected with a duplicate check id; the longer
  id of two scripts that begin alike may be too long (`discover.rs:596`), with
  the same effect (`RejectsOnlyCollisions`).
- A check that replaces a workflow step drops the step's gap before the
  selection (`discover.rs:1262`). If the check is then not selected, nothing in
  the receipt says that the step was not run: `ReplacementsExact` relates the
  step to the check, not to an execution.

## 5. The proofs

`CheckExecution_proofs` proves, from the assumptions `LimitAssumption`
(the limit is a positive natural number) and `LeaderAssumption` (the leader is
not one of the descendants), for any set of descendants, any limit, any number
of units, with or without escapes and changes of user:

- `TypeCorrect`, `LogsAreComplete`, `LimitIsDecided`, `NobodySurvives` and
  `FilesAreSettled`: each safety invariant of `check_execution`;
- `ImplementsContract`: `Spec => ContractSpec`.

The safety properties are not inductive: most speak of `step = "done"` and hold
then because of what earlier steps made sure of. `IInv` says what. Its
parts relate `step` to the leader and the group (`InvProcesses`), to the joined
threads (`InvJoined`), to the capture files (`InvFiles`) and to the outcome
(`InvOutcome`); the pipes' holders to the live processes, and end of stream to
"nobody can write again" (`InvPipes`); the shared counter to what the threads
have read, up to what they have not added yet (`InvTotal`); and the flag and the
forced outcome to their causes (`InvLimit`, `InvForced`). Each part has one
lemma, in which the steps are split into the supervisor's, a capture thread's
and the world's. `LimitIsDecided` is the interesting consequence: after both
joins nothing is pending, so the counter is what was read, which is what was
written. For the refinement every step is mapped to a step of the contract or
a stutter; the only interesting one is the last, where the verdict must be
justified by the state at that moment.

`RunChecks_proofs` proves, from `PlansAssumption` (a plan is a sequence of
checks without duplicates, which `PlansAreAsAssumed` proves of discovery) and
`ClockAssumption` (the clock's bound is a natural number), for plans of any
length and any contents of the workspace:

- `TypeCorrect`, `FailFastHolds`, `ExitCodeTruthful`, `PrimaryBeforeCopy` and
  `ProducedIsVerifiable`: the invariants of `run_checks`, with any edits,
  interruptions, failures and clock;
- `CancellationNeverLost`: its temporal property.

The properties relate states far apart: the exit code is chosen long after the
outcome, the verifier derives from the receipt what the producer derived from
the loop. The inductive invariant `IInv` carries what lies between. The
executions are a prefix of the plan (`InvLoop`) and the fail-fast flag sums up
their outcomes (`InvStop`), which makes `FailFast` inductive; readings of the
clock are ordered unless it was stepped back (`InvTimes`); a receipt, once
built, repeats variables that change no more, its outcome computed with the
token set or not (`InvReceipt`); and receipt, store, copy and exit code follow
each other (`InvStored`, `InvOut`, `InvExit`, `ExitCodeTells`).
`ProducedIsVerifiable` is then a fact about states: `InvVerifies` goes through
the objections of `verify_semantics` and excludes each but the two the property
names. For `CancellationNeverLost` the state predicate `Marked`, that the token
is set and a receipt is either still to be built or a cancelled one, is shown
to hold for ever once it holds.

`ProgressTells` adds the progress stream: `InvEvents` says that event `k` of the
history is the start or the end of execution `(k + 1) \div 2`, with two events
for every execution but a running one, whatever else the run does.

`EvidenceStore_proofs` proves, from `PublishersAssumption`,
`AttemptsAssumption` (at least one attempt) and `ExistingAssumption` (leftovers
have names of the store), for any number of runs, with any process ids, contents
and leftovers:

- `TypeCorrect`, `NamesAreTrue`, `ReceiptsKeepLogs`, `ResultsAreTrue` and
  `NoLogRemains`: the invariants of `evidence_store`, with kills anywhere and,
  where the property allows it, power losses;
- `EvidenceStays` and `ImplementsWriteOnce`: final names are bound once, as an
  action property and as a refinement of `WriteOnce`.

The inductive invariant ties each run's program counter to the disk. A temporary
name that a run holds is bound to the file it made (`InvHeld`): nobody else can
take or remove the name, though process ids coincide, since names are taken only
if they are free and removed only by their holder. What has been hashed, written
or synced is in the file (`InvData`); a final name is bound only to files that
are settled, synced and fit it (`InvLinked`); the blobs a run goes on from, and
the receipt it reported, are there (`InvBlobs`, `InvStored`). `InvCount` bounds
the temporary names by the attempts, and `InvTemporary` says whose the
temporary logs are and why they are still there: held, left by a run that
failed, by a command that could not be spawned, or brought back by a power loss
(`LossOfNames`). For the refinement a `hard_link` that binds a final name is
`Publish`, a power loss is `Lose`, and every other step is a stutter; what a power
loss leaves is whole because every file with a final name is synced.

`SourceIdentity_proofs` proves, from `PathAssumption`, `WorldAssumption` and
`EditAssumption` (the inputs have their types) and `ContentAssumption` (different
contents read differently), for any paths, contents,
commits, initial repositories and number of edits:

- `TypeCorrect` and `Quietness`, the invariant of an undisturbed collection;
- `EqualIdentitiesAreSteady`, `NoFalseAlarm`, `DirtyMeansPaths` and
  `DeletedIsMissing`: each safety property of `source_identity`.

`EqualIdentitiesAreSteady` is the central one. A collected value is `Sound`: the
facet had it at some moment of this identification. If both identities agree and
a facet differed from the first one in between (`InvDrift`), then it must have
come back to a value it had had, which is `restored`: the difference stays
unless something is put back. `InvDiscovered` says the same of what discovery
read.

That identities which agree tell the same is not assumed but `AgreeingTellsSame`:
in a stream made of pieces (`Consists`), each begins with its path, and no other
token of a piece is one unless a file's content holds it (`PieceUnbroken`). So the
paths can be seen in the stream (`PathsAreSeen`), both decompositions begin their
pieces at the same places, end them where the next begins (`NextBegins`), and a
piece has one kind, content and mode (`PieceTells`). `InvStreams` says that the
stream of every identity collected so far is made of its entries.

For `NoFalseAlarm`, what a quiet collection has so far equals what git and
the files say now (`InvQuiet`), and paths that no identity lists stay unlisted
(`InvHidden`), so a second quiet collection must equal the first.

`DiscoveryChecks_proofs` and `Discovery_proofs` prove every safety property of
`discovery`, for any repository, configuration and request:

- `TypesHold`, `CommandsRunOnce`, `IdsAreHandedOn` and `OnlyCollisionsReject`,
  about the checks and their ids;
- `GapsAreTold`, `StepsAreChecked`, `ReplacementsAreExact`, `PlansAreAsAssumed`
  and `ChangesAreAccounted`, about workflow steps, replacements and the plan.

Discovery has no memory of where a check came from, so the invariant of the
checks, `InvChecks`, has to say it: each is an entry of the configuration, a
check of a tool or of a script the manifests yield, or made of a safe step
(`InvOrigin`); a tool has one (`InvTools`); and no two that are not explicit run
one command in one directory. `CommandsRunOnce` is a part of it, because only
what `Existing` has not found is added. For
`OnlyCollisionsReject` the checks with one id are traced to one origin
(`OwnIdsAreGood`). The gaps have their own invariant, `IInv`: before the
replacements every unmodelled step has its gap (`InvOpen`), afterwards it has, or
a replaced step explains its absence (`InvTold`). `StepsBecomeChecks` is
inductive with `InvChecks`: the first check that runs a step's command is never
dropped unless it is disabled. `InvReplaced` ties each claim of a check to the
one observation that was replaced for it. `InvPlan` says from which stage on the
checks are in the order of their ids, and these differ, and that until the
selection only steps leave gaps, so that a gap of a path is the selection's own.
`PlansAreAsAssumed` gives `RunChecks_proofs` its `PlansAssumption` for every
repository.

The lemmas about `Verifiers` and the sorting (`InOrderFacts`, `SortFacts`,
`PickedFacts`, `LongNamedFacts`, `ManifestFacts`) need induction: that a finite
set can be enumerated in its order, that the long-named scripts are a set that
exists and is unique. The library states induction for predicates, which the
provers cannot instantiate. `SetInduction` states it for sets, of which a
predicate on numbers is one, and proves it from the well-foundedness of the
finite subsets; it can be cited like any fact. This is why order is `InOrder`
and not `SortSeq`, and why no operator of these modules is recursive.

The assumptions are the types of the inputs (`WordAssumption`,
`ScriptAssumption`, `DirAssumption`, `TextAssumption`, `NameAssumption`,
`InputAssumption`), that the ranks of ids are different (`IdAssumption`, likewise
`ScriptAssumption` of scripts), and, for `OnlyCollisionsReject` and
`IdsAreHandedOn` alone, `DistinctIdsAssumption`: ids made of different things
differ. For the prefixes this is how the code makes them; for the digests, of
which it keeps eight digits, it is an assumption about real repositories, as it
is that no script has the longer id of another for its name.

Liveness (`DeadlineMet`, `CancellationMet`) stays with TLC. Every other
property of the passing runs has a theorem.

## 6. Not modelled

- The branches of `execute_check` for a child without a captured stdout or
  stderr (`execute.rs:272-289`): both are always captured, by `Stdio::piped()`.
- Reuse of a process group id after its leader was reaped; which id the kernel
  gives next is outside the program.
- A program that keeps the user of the check as its real or saved user id: it
  can be signalled like any other and is no case of its own.
- The Windows and other non-Unix branches of process control.
- What discovery does inside a string: parsing of manifests, workflows and
  configuration, splitting of a text into words, the words that make a text look
  like verification, the portable part of a name, the matching of patterns with
  paths. They are constants of `Verifiers` and `Discovery`.
- The verifier's comparison of digest, id and schema, the lookup of receipts by
  id or path and the opening of the store's directories: pure checks of what was
  read, which a run's own receipts cannot fail by `NamesTellTruth`.
- Toolchain commands, summaries and their redaction, environment forwarding,
  output formats, schemas, completions.
- `parse_receipt_document`, a sequential reader with its own fuzz target.
- The release scripts, benchmarks and fixtures.

## 7. Plan

The modules were written in the order in which they depend on each other: check
execution and its contract, the run, the store, discovery, source identity; the
proofs follow the same order. What would come next:

1. `VerifyReceipt`: the digest, id, schema and blob checks of `verify.rs` and
   the lookup in `store.rs` over changed receipts and stores, and which changes
   are always noticed.
2. `SourceIdentity` in place of the one-step identifications of `RunChecks`, as
   a refinement: today `RunChecks` takes an identity to be of one moment.
