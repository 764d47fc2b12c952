------------------------------ MODULE RunChecks ------------------------------
(***************************************************************************)
(* One `taskattest run` (Commands::Run in src/src/main.rs and run_checks   *)
(* in src/src/execute.rs): preflight of --receipt-out, source identity,    *)
(* discovery, the loop over the selected checks, the second source         *)
(* identity, the receipt, the store, the portable copy and the exit code.  *)
(*                                                                         *)
(* Around it the workspace may be edited by a check or by somebody else,   *)
(* Ctrl-C may arrive, the wall clock may be stepped back, somebody may     *)
(* create the output path, any call may fail and the process may be        *)
(* killed.  A call of execute_check is one step here, described by what    *)
(* CheckContract promises of it; CheckExecution models its inside.         *)
(***************************************************************************)
EXTENDS Receipts

CONSTANTS
  Checks,        \* ids of the checks the repository defines
  Plans,         \* selections discovery may return: id sequences
  Contents,      \* contents the workspace may have
  OutsideEdits,  \* may somebody edit the workspace between two checks?
  ClockStepsBack,\* may the wall clock be stepped back?
  MaxClock       \* bound: readings of the wall clock are in 0..MaxClock

IsPlan(p) ==
  /\ p \in Seq(Checks)
  /\ \A i, j \in 1..Len(p) : p[i] = p[j] => i = j

\* validate_checks rejects duplicate ids, so a selection has none.
ASSUME PlansAssumption == \A p \in Plans : IsPlan(p)
ASSUME ContentsAssumption == Contents # {}
ASSUME SwitchAssumption == OutsideEdits \in BOOLEAN /\ ClockStepsBack \in BOOLEAN
ASSUME ClockAssumption == MaxClock \in Nat

Steps == {"preflight", "identify", "discover", "open_store", "run_checks",
          "next_check", "in_check", "identify_again", "decide",
          "write_receipt", "announce", "publish", "emit", "exited", "killed"}

\* Steps after the Ctrl-C handler has been installed.
Handling == Steps \ {"preflight", "identify", "discover", "open_store"}
\* Steps at which the receipt's outcome is not yet decided.
Undecided == {"run_checks", "next_check", "in_check", "identify_again", "decide"}

NoExit == -1
ExitCodes == {0, 1, 3, 4, 5, 6, 7, 101}
NoReceipt == [outcome |-> "none"]

VARIABLES
  step,          \* where the process is
  exit,          \* its exit code, or NoExit
  invocation,    \* [fail_fast, receipt_out]: what the command line asked
  workspace,     \* the content of the workspace now
  source,        \* discovery.source: the content identified before discovery
  source_after,  \* the content identified after the checks
  plan,          \* ids of the selected checks, in order
  gaps,          \* did discovery record a coverage gap?
  executions,    \* the checks executed or skipped so far
  stop,          \* the fail-fast flag of the loop
  started,       \* [run, check]: wall-clock readings at the two starts
  cancelled,     \* the cancellation token
  events,        \* the progress events emitted so far
  receipt,       \* the receipt built, or NoReceipt
  stored,        \* is it in the store?
  out,           \* the --receipt-out path: "absent", "foreign", "receipt"
  clock,         \* the wall clock
  stepped,       \* history: the clock was stepped back during the run
  strayed        \* history: a check ended with the workspace not as identified

command == <<step, exit, invocation>>
discovered == <<source, plan, gaps>>
loop == <<executions, stop, started, events>>
result == <<source_after, receipt, stored>>
world == <<workspace, cancelled, out, clock, stepped, strayed>>
vars == <<step, exit, invocation, workspace, source, source_after, plan, gaps,
          executions, stop, started, cancelled, events, receipt, stored, out,
          clock, stepped, strayed>>

Clock == 0..MaxClock
Execution == [id : Checks, outcome : CheckOutcomes, started : Clock, completed : Clock]
Event == [state : {"CheckStarted", "CheckFinished"}, id : Checks, outcome : CheckOutcomes]
           \cup [state : {"CheckStarted"}, id : Checks]
           \cup [state : {"ReceiptStored"}]

Receipt == [outcome : ReceiptOutcomes, source : Contents, discovery_source : Contents,
            source_after : Contents, source_unchanged : BOOLEAN,
            started : Clock, completed : Clock, selected : SUBSET Checks,
            checks : Seq(Execution), gaps : BOOLEAN]

TypeOK ==
  /\ step \in Steps
  /\ exit \in ExitCodes \cup {NoExit}
  /\ invocation \in [fail_fast : BOOLEAN, receipt_out : BOOLEAN]
  /\ workspace \in Contents /\ source \in Contents /\ source_after \in Contents
  /\ plan \in Seq(Checks) /\ gaps \in BOOLEAN
  /\ executions \in Seq(Execution)
  /\ stop \in BOOLEAN
  /\ started \in [run : Clock, check : Clock]
  /\ cancelled \in BOOLEAN
  /\ events \in Seq(Event)
  /\ receipt \in Receipt \cup {NoReceipt} /\ stored \in BOOLEAN
  /\ out \in {"absent", "foreign", "receipt"}
  /\ clock \in Clock
  /\ stepped \in BOOLEAN /\ strayed \in BOOLEAN

Init ==
  /\ step = "preflight" /\ exit = NoExit
  /\ invocation \in [fail_fast : BOOLEAN, receipt_out : BOOLEAN]
  /\ workspace \in Contents /\ source = workspace /\ source_after = workspace
  /\ plan = <<>> /\ gaps = FALSE
  /\ executions = <<>> /\ stop = FALSE
  /\ started = [run |-> 0, check |-> 0]
  /\ cancelled = FALSE
  /\ events = <<>>
  /\ receipt = NoReceipt /\ stored = FALSE
  /\ out \in IF invocation.receipt_out THEN {"absent", "foreign"} ELSE {"absent"}
  /\ clock = 0
  /\ stepped = FALSE /\ strayed = FALSE

-----------------------------------------------------------------------------
(* The process.                                                            *)

Goto(next) == step' = next /\ UNCHANGED <<exit, invocation>>
Exit(codes) == step' = "exited" /\ exit' \in codes /\ UNCHANGED invocation

\* run() returns an error; main prints it on stderr, which may panic.
Abort(codes) == Exit(codes \cup {101})

\* preflight_json_output: the output path must not exist before anything runs.
Preflight ==
  /\ step = "preflight"
  /\ IF invocation.receipt_out /\ out = "foreign"
       THEN Abort({4})
       ELSE \/ Goto("identify")
            \/ invocation.receipt_out /\ Abort({4, 6})  \* unusable parent directory
  /\ UNCHANGED <<discovered, loop, result, world>>

\* GitContext::discover and identify_source.
Identify ==
  /\ step = "identify"
  /\ \/ Goto("discover") /\ source' = workspace
     \/ Abort({3, 6}) /\ UNCHANGED source
  /\ UNCHANGED <<plan, gaps, loop, result, world>>

\* discover_checks reads the workspace after it was identified.  A selection
\* with no check in it always comes with a coverage gap.
Discover ==
  /\ step = "discover"
  /\ \/ /\ Goto("open_store")
        /\ plan' \in Plans
        /\ gaps' \in IF plan' = <<>> THEN {TRUE} ELSE BOOLEAN
     \/ Abort({3, 5, 6}) /\ UNCHANGED <<plan, gaps>>
  /\ UNCHANGED <<source, loop, result, world>>

\* StateStore::create and install_cancellation_handler.
OpenStore ==
  /\ step = "open_store"
  /\ Goto("run_checks") \/ Abort({4, 6})
  /\ UNCHANGED <<discovered, loop, result, world>>

\* The start of run_checks: its clock reading and the toolchain identities.
StartRun ==
  /\ step = "run_checks"
  /\ Goto("next_check")
  /\ started' = [run |-> clock, check |-> started.check]
  /\ UNCHANGED <<discovered, executions, stop, events, result, world>>

Emit(event) == events' = Append(events, event)

\* The head of the loop: the CheckStarted event and the check's own clock
\* reading; or the end of the loop.
StartCheck ==
  /\ step = "next_check"
  /\ Len(executions) < Len(plan)
  /\ Emit([state |-> "CheckStarted", id |-> plan[Len(executions) + 1]])
  /\ started' = [run |-> started.run, check |-> clock]
  /\ Goto("in_check")
  /\ UNCHANGED <<discovered, executions, stop, result, world>>

EndLoop ==
  /\ step = "next_check"
  /\ Len(executions) = Len(plan)
  /\ Goto("identify_again")
  /\ UNCHANGED <<discovered, loop, result, world>>

\* Mutant: a skipped check clears the fail-fast flag.
RecordResuming(outcome, from) ==
  LET id == plan[Len(executions) + 1] IN
  /\ executions' = Append(executions, [id |-> id, outcome |-> outcome,
                                       started |-> from, completed |-> clock])
  /\ stop' = (invocation.fail_fast /\ outcome \notin {"Passed", "Skipped"})
  /\ Emit([state |-> "CheckFinished", id |-> id, outcome |-> outcome])
  /\ Goto("next_check")
  /\ UNCHANGED <<discovered, result, started>>

\* The tail of the loop, whether the check was executed or skipped: the
\* fail-fast flag is assigned anew from this check's outcome.
Record(outcome, from) ==
  LET id == plan[Len(executions) + 1] IN
  /\ executions' = Append(executions, [id |-> id, outcome |-> outcome,
                                       started |-> from, completed |-> clock])
  /\ stop' = (invocation.fail_fast /\ outcome # "Passed")
  /\ Emit([state |-> "CheckFinished", id |-> id, outcome |-> outcome])
  /\ Goto("next_check")
  /\ UNCHANGED <<discovered, result, started>>

\* execute_check returns an outcome; Cancelled only when the token is set.
ExecuteCheck ==
  /\ step = "in_check" /\ ~stop
  /\ \E outcome \in CheckOutcomes \ {"Skipped"} :
       /\ outcome = "Cancelled" => cancelled
       /\ Record(outcome, started.check)
  /\ strayed' = (strayed \/ workspace # source)
  /\ UNCHANGED <<workspace, cancelled, out, clock, stepped>>

\* skipped_execution takes one clock reading for both times.
SkipCheck ==
  /\ step = "in_check" /\ stop
  /\ Record("Skipped", clock)
  /\ UNCHANGED world

\* Mutant: an Err is recorded as one more outcome and the loop goes on.
ExecuteFailsRecorded ==
  /\ step = "in_check" /\ ~stop
  /\ Record("Errored", started.check)
  /\ UNCHANGED world

\* execute_check returns an Err: a capture file, a wait, a signal, a capture
\* thread or a blob failed.  The run ends without a receipt.
ExecuteFails ==
  /\ step = "in_check" /\ ~stop
  /\ Abort({4, 5, 6})
  /\ UNCHANGED <<discovered, loop, result, world>>

\* identify_source once more, after the last check.
IdentifyAgain ==
  /\ step = "identify_again"
  /\ \/ Goto("decide") /\ source_after' = workspace
     \/ Abort({3, 6}) /\ UNCHANGED source_after
  /\ UNCHANGED <<discovered, loop, receipt, stored, world>>

\* Mutants: the outcome ignores the source, or the token.
RunOutcomeAnySource == receipt_outcome(executions, gaps, cancelled, TRUE)
RunOutcomeNoToken == receipt_outcome(executions, gaps, FALSE, source_after = source)

\* The outcome: the token is read here for the last time.
RunOutcome == receipt_outcome(executions, gaps, cancelled, source_after = source)

\* The payload is built and hashed.
Decide ==
  /\ step = "decide"
  /\ receipt' = [outcome |-> RunOutcome,
                 source |-> source, discovery_source |-> source,
                 source_after |-> source_after,
                 source_unchanged |-> source_after = source,
                 started |-> started.run, completed |-> clock,
                 selected |-> {plan[i] : i \in DOMAIN plan},
                 checks |-> executions, gaps |-> gaps]
  /\ Goto("write_receipt")
  /\ UNCHANGED <<discovered, loop, source_after, stored, world>>

\* Mutants: the portable copy is written ahead of the store's; the run goes on
\* when the store could not be written.
WriteReceiptSecond ==
  /\ step = "write_receipt"
  /\ \/ /\ out' = IF invocation.receipt_out /\ out = "absent" THEN "receipt" ELSE out
        /\ Goto("announce") /\ UNCHANGED stored
     \/ Abort({4, 5, 6}) /\ UNCHANGED <<stored, out>>
  /\ UNCHANGED <<discovered, loop, source_after, receipt, workspace, cancelled,
                 clock, stepped, strayed>>
WriteReceiptIgnoring ==
  /\ step = "write_receipt"
  /\ Goto("announce") /\ stored' \in BOOLEAN
  /\ UNCHANGED <<discovered, loop, source_after, receipt, world>>

\* StateStore::write_receipt: the 4 MiB bound, then write_json_atomic.
WriteReceipt ==
  /\ step = "write_receipt"
  /\ \/ Goto("announce") /\ stored' = TRUE
     \/ Abort({4, 5, 6}) /\ UNCHANGED stored
  /\ UNCHANGED <<discovered, loop, source_after, receipt, world>>

Announce ==
  /\ step = "announce"
  /\ Emit([state |-> "ReceiptStored"])
  /\ Goto("publish")
  /\ UNCHANGED <<discovered, executions, stop, started, result, world>>

\* write_json_atomic to --receipt-out: the link is created only when the path
\* is absent; any failure is exit 7.
Publish ==
  /\ step = "publish"
  /\ \/ /\ ~invocation.receipt_out
        /\ Goto("emit") /\ UNCHANGED out
     \/ /\ invocation.receipt_out /\ out = "absent"
        /\ Goto("emit") /\ out' = "receipt"
     \/ /\ invocation.receipt_out
        /\ Abort({7}) /\ UNCHANGED out
  /\ UNCHANGED <<discovered, loop, result, workspace, cancelled, clock,
                 stepped, strayed>>

\* Mutant: the exit code says only that the run was carried out.
EmitReceiptZero ==
  /\ step = "emit"
  /\ Exit({0, 5, 6, 101})
  /\ UNCHANGED <<discovered, loop, result, world>>

\* emit_receipt on stdout, and the exit code.  A write error on stdout is 5
\* or 6, and a panic of println! is 101.
EmitReceipt ==
  /\ step = "emit"
  /\ \/ Exit({IF receipt.outcome = "Passed" THEN 0 ELSE 1})
     \/ Abort({5, 6})
  /\ UNCHANGED <<discovered, loop, result, world>>

\* eprintln! of a progress event panics when stderr is closed.
ProgressPanics ==
  /\ \/ step = "next_check" /\ Len(executions) < Len(plan)
     \/ step \in {"in_check", "announce"}
  /\ Exit({101})
  /\ UNCHANGED <<discovered, loop, result, world>>

-----------------------------------------------------------------------------
(* The world around the process.                                           *)

Alive == step \notin {"exited", "killed"}

\* A running check edits the workspace; anybody may when OutsideEdits.
Edit ==
  /\ Alive
  /\ OutsideEdits \/ (step = "in_check" /\ ~stop)
  /\ workspace' \in Contents \ {workspace}
  /\ UNCHANGED <<command, discovered, loop, result, cancelled, out, clock,
                 stepped, strayed>>

\* Somebody creates the path --receipt-out names.
Occupy ==
  /\ Alive /\ invocation.receipt_out /\ out = "absent"
  /\ out' = "foreign"
  /\ UNCHANGED <<command, discovered, loop, result, workspace, cancelled,
                 clock, stepped, strayed>>

\* Ctrl-C sets the token once its handler is installed, and before that kills
\* the process.
Interrupt ==
  /\ Alive /\ ~cancelled
  /\ IF step \in Handling
       THEN cancelled' = TRUE /\ UNCHANGED command
       ELSE cancelled' = FALSE /\ Goto("killed")
  /\ UNCHANGED <<discovered, loop, result, workspace, out, clock, stepped,
                 strayed>>

\* SIGKILL, the machine stops.
Crash ==
  /\ Alive
  /\ Goto("killed")
  /\ UNCHANGED <<discovered, loop, result, world>>

Tick ==
  /\ Alive /\ clock < MaxClock
  /\ clock' = clock + 1
  /\ UNCHANGED <<command, discovered, loop, result, workspace, cancelled, out,
                 stepped, strayed>>

StepClockBack ==
  /\ Alive /\ ClockStepsBack /\ clock > 0
  /\ clock' = clock - 1
  /\ stepped' = TRUE
  /\ UNCHANGED <<command, discovered, loop, result, workspace, cancelled, out,
                 strayed>>

-----------------------------------------------------------------------------
Process ==
  \/ Preflight \/ Identify \/ Discover \/ OpenStore \/ StartRun
  \/ StartCheck \/ EndLoop \/ ExecuteCheck \/ SkipCheck \/ ExecuteFails
  \/ IdentifyAgain \/ Decide \/ WriteReceipt \/ Announce \/ Publish
  \/ EmitReceipt \/ ProgressPanics

World == Edit \/ Occupy \/ Interrupt \/ Crash \/ Tick \/ StepClockBack

Ended == ~Alive /\ UNCHANGED vars

Next == Process \/ World \/ Ended

Spec == Init /\ [][Next]_vars

-----------------------------------------------------------------------------
(* Properties.                                                             *)

\* With --fail-fast nothing runs after the first outcome that is not Passed,
\* however long the rest of the plan is; and a check is skipped only for that.
FailFast ==
  \A j \in DOMAIN executions :
    (executions[j].outcome = "Skipped") <=>
       /\ invocation.fail_fast
       /\ \E i \in 1..(j - 1) : executions[i].outcome # "Passed"

\* What the producer stores, the verifier accepts.  There are two exceptions
\* and no other: a clock that was stepped back shows as a time problem, and a
\* Ctrl-C that no check saw shows as an outcome problem.
StoredReceiptVerifies ==
  LET problems == verify_semantics(receipt) IN
  stored =>
    /\ problems \subseteq {"receipt time", "check time", "outcome"}
    /\ problems \cap {"receipt time", "check time"} # {} => stepped
    /\ "outcome" \in problems =>
         /\ cancelled /\ receipt.outcome = "Cancelled"
         /\ "Cancelled" \notin OutcomesOf(executions)

\* The progress stream is the run's own history: Started and Finished
\* alternate in plan order, Finished carries the recorded outcome, and
\* ReceiptStored comes last and only once the receipt is in the store.
ProgressIsHistory ==
  \A k \in DOMAIN events :
    LET e == events[k] IN
    CASE e.state = "CheckStarted" -> k % 2 = 1 /\ e.id = plan[(k + 1) \div 2]
      [] e.state = "CheckFinished" ->
           /\ k % 2 = 0 /\ e.id = plan[k \div 2]
           /\ e.outcome = executions[k \div 2].outcome
      [] e.state = "ReceiptStored" ->
           stored /\ k = Len(events) /\ k = 2 * Len(plan) + 1

\* The exit code tells the caller the truth about the evidence: 0 only with a
\* stored receipt of a run in which every planned check passed on the
\* identified source, without gaps, and whose portable copy exists if asked
\* for; 1 with a stored receipt that did not pass; 7 with a stored receipt and
\* no portable copy of this run's.
ExitCodeTells ==
  /\ exit \in {0, 1, 7} => stored /\ Len(executions) = Len(plan)
  /\ exit = 0 => /\ plan # <<>> /\ ~gaps /\ AllPassed(executions)
                 /\ source_after = source
  /\ exit = 1 => receipt.outcome # "Passed"
  /\ exit \in {0, 1} /\ invocation.receipt_out => out = "receipt"
  /\ exit = 7 => invocation.receipt_out /\ out # "receipt"

\* The portable copy exists only after the primary receipt does, at any moment
\* at which the process may be killed.
PrimaryFirst == out = "receipt" => stored

\* A Ctrl-C that arrives before the outcome is decided is never lost: the run
\* then stores a cancelled receipt or none.
CancellationSticks ==
  [](cancelled /\ step \in Undecided => [](stored => receipt.outcome = "Cancelled"))

\* docs/RECEIPTS.md: a mutation makes the receipt fail even if all child
\* commands returned zero, the identity being recomputed after every check.
MutationFails == stored /\ receipt.outcome = "Passed" => ~strayed

\* docs/RECEIPT_RECOVERY.md: a receipt can be internally valid while its
\* outcome is cancelled; verification finds no problem in what a run stores.
CancelledReceiptVerifies ==
  stored /\ ~stepped /\ receipt.outcome = "Cancelled" => verify_semantics(receipt) = {}
=============================================================================
